---- MODULE Spec2Model ----
(***************************************************************************)
(* Model of the file/metadata consistency layer of the chat file storage   *)
(* backend: the request handlers of routes/files.js and routes/profile.js  *)
(* over the two SQLite tables of database-simple.js and the uploads/       *)
(* directory.  Every `await` of a handler is a point where another         *)
(* handler may run, so each filesystem or database call is one action.     *)
(* Filesystem and database calls may fail; a call that fails changes       *)
(* nothing.  uuidv4() hands out identifiers that are never repeated,       *)
(* except in SpecCollide, which is about a repeated one.  Each             *)
(* specification below runs the handlers one question is about.            *)
(***************************************************************************)
EXTENDS Integers, Sequences, FiniteSets, TLC

\* Identifiers uuidv4() hands out in one behaviour: uploads stop asking once
\* MaxFileIds are out, picture uploads once MaxPicIds are.
MaxFileIds == 2
MaxPicIds == 3

\* Calls of incrementDownloadCount on one file, and readings of the clock.
MaxDownloads == 2
MaxClock == 1

\* Files uploaded where downloads and deletes of one file are interleaved.
MaxCountedFiles == 1

\* The largest limit and the largest offset a listing is asked for.
MaxLimit == 2
MaxOffset == 1

\* A size in bytes is mantissa * 2^shift, with these largest values.
MaxMantissa == 25
MaxShift == 41

\* Request handlers that can be in flight at the same time.
Procs == {"h1", "h2"}

\* Caller-supplied user ids; the empty string is the missing (falsy) one.
\* The profile routes touch nothing but the row and the pictures of the user
\* they are called for, so they are called for one user.
UserIds == {"u1", "u2"}
ProfileUserIds == {"u1"}
NoUserId == ""

\* Upload bodies (req.file.buffer); NoFile is a request without a file part.
Payloads == {<<7, 7>>}
\* Payloads of different lengths, for the routes that hand content back.
DownloadPayloads == {<<7, 7>>, <<8>>}
NoFile == <<>>

\* Profile fields of a request body; NullStr is SQL NULL / JS null.
NullStr == "null"
\* The username and email a picture upload or a sync carries; NoProfile is
\* what a handler holds before it has read them.
NoProfile == [username |-> NullStr, email |-> NullStr]
Profiles == {[username |-> "ann", email |-> "ann@x"]}
\* Profile data of a sync that renames the user.
RenamingProfiles == Profiles \cup {[username |-> "bob", email |-> "bob@x"]}

\* NULL path / url column, and the value of a lookup that found no row.
NullPath == <<>>
NullRow == [null |-> TRUE]

VARIABLES shared_files, users, blobs, nextId, req, resp, deleted, uploaded,
          calls, now, stored, touched, returned

vars == <<shared_files, users, blobs, nextId, req, resp, deleted, uploaded,
          calls, now, stored, touched, returned>>

\* What has been answered and called so far (history), and the clock.
\* returned is what the last query or helper call gave back to its caller.
hist == <<deleted, uploaded, calls, now, stored, touched,
         returned>>

----------------------------------------------------------------------------
(* Paths and urls, as the handlers build them.                             *)

\* path.extname(originalname) of the one original name modelled.
OriginalName == "notes.txt"

\* A MIME type is a sequence of pieces, cut so that each of the words
\* getFileCategory and fileFilter look for is a piece of its own; an upload's
\* description is absent.
NoMime == <<>>
DefaultMime == <<"text/", "plain">>
NoDescription == ""

\* mimetype.startsWith(piece), mimetype.includes(piece)
StartsWith(mime, piece) == Len(mime) > 0 /\ mime[1] = piece
Includes(mime, piece) == \E i \in 1..Len(mime) : mime[i] = piece

\* The types multer's fileFilter lets through.
AllowedTypes ==
    {<<"image/">>, <<"video/">>, <<"audio/">>, <<"application/", "pdf">>,
     <<"text/">>, <<"application/", "ms", "word">>,
     <<"application/", "vnd.openxmlformats">>, <<"application/", "zip">>,
     <<"application/", "x-", "zip", "-compressed">>}

IsPrefix(type, mime) ==
    Len(type) <= Len(mime) /\ SubSeq(mime, 1, Len(type)) = type

FileFilter(mime) == \E type \in AllowedTypes : IsPrefix(type, mime)

\* Mutant of GetFileCategory: the archive test comes before the others.
GetFileCategoryZipFirst(mimeType) ==
    IF Includes(mimeType, "zip") THEN "archive"
    ELSE IF StartsWith(mimeType, "image/") THEN "image"
    ELSE IF StartsWith(mimeType, "video/") THEN "video"
    ELSE IF StartsWith(mimeType, "audio/") THEN "audio"
    ELSE IF mimeType = <<"application/", "pdf">> THEN "pdf"
    ELSE IF StartsWith(mimeType, "text/") THEN "text"
    ELSE IF Includes(mimeType, "word") \/ Includes(mimeType, "document")
         THEN "document"
    ELSE "other"

GetFileCategory(mimeType) ==
    IF StartsWith(mimeType, "image/") THEN "image"
    ELSE IF StartsWith(mimeType, "video/") THEN "video"
    ELSE IF StartsWith(mimeType, "audio/") THEN "audio"
    ELSE IF mimeType = <<"application/", "pdf">> THEN "pdf"
    ELSE IF StartsWith(mimeType, "text/") THEN "text"
    ELSE IF Includes(mimeType, "word") \/ Includes(mimeType, "document")
         THEN "document"
    ELSE IF Includes(mimeType, "zip") THEN "archive"
    ELSE "other"
FileExtension == ".txt"

SharedFileName(fileId) == <<fileId, FileExtension>>
\* One path for every upload.
SharedFilePathFixed(fileId) == <<"uploads/shared", "upload", FileExtension>>

SharedFilePath(fileId) == <<"uploads/shared">> \o SharedFileName(fileId)
SharedFileUrl(fileId) == <<"/uploads/shared">> \o SharedFileName(fileId)

ProfileFileName(userId, fileId) == <<"profile", userId, fileId, ".jpg">>
ProfilePath(userId, fileId) == <<"uploads/profiles">> \o ProfileFileName(userId, fileId)
ProfileUrl(userId, fileId) == <<"/uploads/profiles">> \o ProfileFileName(userId, fileId)

----------------------------------------------------------------------------
(* The blob store: fs-extra on the uploads/ directory.                     *)

PathExists(path) == path \in DOMAIN blobs

WriteFile(path, bytes) ==
    [q \in DOMAIN blobs \cup {path} |-> IF q = path THEN bytes ELSE blobs[q]]

\* fs.remove is rm -rf: removing an absent path succeeds and changes nothing.
FsRemove(path) == [q \in DOMAIN blobs \ {path} |-> blobs[q]]

----------------------------------------------------------------------------
(* The metadata repository: dbHelpers of database-simple.js.               *)

GetSharedFile(fileId) ==
    IF fileId \in DOMAIN shared_files THEN shared_files[fileId] ELSE NullRow

\* INSERT INTO shared_files: file_id is UNIQUE, so an existing id throws.
CreateThrows(fileId) == fileId \in DOMAIN shared_files

CreateSharedFile(fileData) ==
    [f \in DOMAIN shared_files \cup {fileData.fileId} |->
        IF f = fileData.fileId
        THEN [file_id |-> fileData.fileId,
              user_id |-> fileData.userId,
              original_name |-> fileData.originalName,
              file_name |-> fileData.fileName,
              file_path |-> fileData.filePath,
              file_url |-> fileData.fileUrl,
              file_size |-> fileData.fileSize,
              mime_type |-> fileData.mimeType,
              description |-> fileData.description,
              category |-> fileData.category,
              download_count |-> 0,
              created_at |-> now,
              last_accessed |-> now]
        ELSE shared_files[f]]

\* DELETE FROM shared_files WHERE file_id = ? AND user_id = ?
DeleteMatches(fileId, userId) ==
    fileId \in DOMAIN shared_files /\ shared_files[fileId].user_id = userId

\* Mutant of DeleteChanges: one row is reported whether or not one matched.
DeleteChangesAlwaysOne(fileId, userId) == 1

DeleteChanges(fileId, userId) == IF DeleteMatches(fileId, userId) THEN 1 ELSE 0

\* Mutant of DeleteSharedFile: the statement deletes nothing.
DeleteSharedFileKeepsRow(fileId, userId) == shared_files

DeleteSharedFile(fileId, userId) ==
    IF DeleteMatches(fileId, userId)
    THEN [f \in DOMAIN shared_files \ {fileId} |-> shared_files[f]]
    ELSE shared_files

\* UPDATE shared_files SET download_count = download_count + 1,
\* last_accessed = CURRENT_TIMESTAMP WHERE file_id = ?  (one statement)
IncrementChanges(fileId) == IF fileId \in DOMAIN shared_files THEN 1 ELSE 0

\* Mutant of IncrementDownloadCount: the UPDATE has no WHERE clause.
IncrementEveryRow(fileId) ==
    [f \in DOMAIN shared_files |->
        [shared_files[f] EXCEPT !.download_count = @ + 1, !.last_accessed = now]]

IncrementSetsOne(fileId) ==
    [f \in DOMAIN shared_files |->
        IF f = fileId
        THEN [shared_files[f] EXCEPT !.download_count = 1, !.last_accessed = now]
        ELSE shared_files[f]]

IncrementDownloadCount(fileId) ==
    [f \in DOMAIN shared_files |->
        IF f = fileId
        THEN [shared_files[f] EXCEPT !.download_count = @ + 1, !.last_accessed = now]
        ELSE shared_files[f]]

\* A value a SELECT hands back: NULL, or an integer.
SqlNull == <<>>
SqlInt(n) == <<n>>

\* ... WHERE user_id = ?
OwnedBy(userId) == {f \in DOMAIN shared_files : shared_files[f].user_id = userId}

\* SUM(column) over the rows named; SUM over no rows is NULL.
RECURSIVE SqlSum(_, _)
SqlSum(ids, column) ==
    IF ids = {} THEN SqlNull
    ELSE LET f == CHOOSE x \in ids : TRUE
             rest == SqlSum(ids \ {f}, column)
         IN  SqlInt(column[f] + (IF rest = SqlNull THEN 0 ELSE rest[1]))

\* SELECT COUNT(*) as total_files, SUM(file_size) as total_size,
\* SUM(download_count) as total_downloads FROM shared_files WHERE user_id = ?
GetUserFileStats(userId) ==
    [total_files |-> SqlInt(Cardinality(OwnedBy(userId))),
     total_size |->
        SqlSum(OwnedBy(userId),
               [f \in DOMAIN shared_files |-> shared_files[f].file_size]),
     total_downloads |->
        SqlSum(OwnedBy(userId),
               [f \in DOMAIN shared_files |-> shared_files[f].download_count])]

\* What the catch block of getUserFileStats returns.
StatsOnError ==
    [total_files |-> SqlInt(0), total_size |-> SqlInt(0),
     total_downloads |-> SqlInt(0)]

\* The characters of the texts that are searched.
Spelling(text) ==
    CASE text = "notes.txt" -> <<"n", "o", "t", "e", "s", ".", "t", "x", "t">>
      [] text = "Report.PDF" -> <<"R", "e", "p", "o", "r", "t", ".", "P", "D", "F">>
      [] text = "image" -> <<"i", "m", "a", "g", "e">>
      [] text = "video" -> <<"v", "i", "d", "e", "o">>
      [] text = "audio" -> <<"a", "u", "d", "i", "o">>
      [] text = "pdf" -> <<"p", "d", "f">>
      [] text = "text" -> <<"t", "e", "x", "t">>
      [] text = "document" -> <<"d", "o", "c", "u", "m", "e", "n", "t">>
      [] text = "archive" -> <<"a", "r", "c", "h", "i", "v", "e">>
      [] text = "other" -> <<"o", "t", "h", "e", "r">>
      [] OTHER -> <<>>

AsciiUpper ==
    <<"A", "B", "C", "D", "E", "F", "G", "H", "I", "J", "K", "L", "M",
      "N", "O", "P", "Q", "R", "S", "T", "U", "V", "W", "X", "Y", "Z">>

AsciiLower ==
    <<"a", "b", "c", "d", "e", "f", "g", "h", "i", "j", "k", "l", "m",
      "n", "o", "p", "q", "r", "s", "t", "u", "v", "w", "x", "y", "z">>

\* LIKE folds the case of ASCII letters.
LowerChar(c) ==
    IF \E i \in 1..Len(AsciiUpper) : AsciiUpper[i] = c
    THEN AsciiLower[CHOOSE i \in 1..Len(AsciiUpper) : AsciiUpper[i] = c]
    ELSE c

\* text LIKE pattern: % stands for any run of characters, _ for any one.
RECURSIVE Like(_, _)
Like(pattern, text) ==
    IF pattern = <<>> THEN text = <<>>
    ELSE IF Head(pattern) = "%"
    THEN Like(Tail(pattern), text) \/ (text # <<>> /\ Like(pattern, Tail(text)))
    ELSE /\ text # <<>>
         /\ Head(pattern) = "_" \/ LowerChar(Head(pattern)) = LowerChar(Head(text))
         /\ Like(Tail(pattern), Tail(text))

\* ORDER BY created_at DESC: every order of the rows named in which no row
\* comes before a newer one.  SQL leaves the order of rows with equal
\* created_at open.
Orderings(ids) ==
    {order \in [1..Cardinality(ids) -> ids] :
        /\ \A i, j \in DOMAIN order : i # j => order[i] # order[j]
        /\ \A i, j \in DOMAIN order :
              i < j => shared_files[order[i]].created_at
                         >= shared_files[order[j]].created_at}

\* LIMIT ? OFFSET ?
LimitOffset(order, limit, offset) ==
    SubSeq(order, offset + 1,
           IF offset + limit < Len(order) THEN offset + limit ELSE Len(order))

\* SELECT * : the rows, in the order given.
RowsOf(order) == [i \in DOMAIN order |-> shared_files[order[i]]]

\* WHERE user_id = ? AND (original_name LIKE ? OR description LIKE ? OR
\* category LIKE ?), each ? after the first being `%${searchTerm}%`.
SearchMatches(userId, searchTerm) ==
    LET term == <<"%">> \o searchTerm \o <<"%">>
    IN  {f \in OwnedBy(userId) :
            \/ Like(term, Spelling(shared_files[f].original_name))
            \/ Like(term, Spelling(shared_files[f].description))
            \/ Like(term, Spelling(shared_files[f].category))}

\* LIMIT 20
SearchLimit == 20

\* The results searchFiles can return; its catch block returns [].
SearchFiles(userId, searchTerm) ==
    {RowsOf(LimitOffset(order, SearchLimit, 0)) :
        order \in Orderings(SearchMatches(userId, searchTerm))}

\* The results getUserSharedFiles can return; its catch block returns [].
GetUserSharedFiles(userId, limit, offset) ==
    {RowsOf(LimitOffset(order, limit, offset)) :
        order \in Orderings(OwnedBy(userId))}

GetUser(userId) == IF userId \in DOMAIN users THEN users[userId] ELSE NullRow

\* Mutant of UpsertUser: INSERT OR IGNORE, an existing row is left as it is.
UpsertUserIgnore(userData) ==
    IF userData.userId \in DOMAIN users
    THEN users
    ELSE [u \in DOMAIN users \cup {userData.userId} |->
            IF u = userData.userId
            THEN [user_id |-> userData.userId,
                  username |-> userData.username,
                  email |-> userData.email,
                  profile_picture_path |-> userData.profilePicturePath,
                  profile_picture_url |-> userData.profilePictureUrl,
                  created_at |-> now,
                  updated_at |-> now]
            ELSE users[u]]

\* INSERT OR REPLACE INTO users (user_id, username, email,
\* profile_picture_path, profile_picture_url, updated_at): a row with the same
\* user_id is deleted and a new row is inserted from userData, its updated_at
\* CURRENT_TIMESTAMP and its created_at, which the statement does not name,
\* the column's default, CURRENT_TIMESTAMP.
UpsertUser(userData) ==
    [u \in DOMAIN users \cup {userData.userId} |->
        IF u = userData.userId
        THEN [user_id |-> userData.userId,
              username |-> userData.username,
              email |-> userData.email,
              profile_picture_path |-> userData.profilePicturePath,
              profile_picture_url |-> userData.profilePictureUrl,
              created_at |-> now,
              updated_at |-> now]
        ELSE users[u]]

----------------------------------------------------------------------------
(* Request handlers.  req[p] is the request handler p is running: its      *)
(* inputs, its position (pc) and its locals.  resp is the response sent    *)
(* last: the request it answers and the status, with the number of rows    *)
(* the repository reported (changes, -1 when it was not asked) and whether *)
(* the request ended because a filesystem or database call failed (fault). *)
(* deleted holds <<fileId, userId>> for every delete that answered         *)
(* success, uploaded the id of every picture upload that answered success, *)
(* stored the payload of every file upload that answered success, by id.   *)

\* The value of a call: the function, its arguments and what it returned.
Returned(fn, arg, value) == [fn |-> fn, arg |-> arg, value |-> value]

NoneReturned == Returned("none", <<>>, <<>>)

Idle ==
    [op |-> "none", pc |-> "idle", userId |-> NoUserId, fileId |-> 0,
     body |-> NoFile, mime |-> NoMime, profile |-> NoProfile, row |-> NullRow,
     changes |-> -1, warned |-> FALSE]

NoResponse ==
    [op |-> "none", userId |-> NoUserId, fileId |-> 0,
     status |-> "none", changes |-> -1, fault |-> FALSE, body |-> NoFile,
     warned |-> FALSE]

Free(p) == req[p] = Idle

Running(p, op, pc) == req[p].op = op /\ req[p].pc = pc

Response(r, status, changes, fault) ==
    [op |-> r.op, userId |-> r.userId, fileId |-> r.fileId,
     status |-> status, changes |-> changes, fault |-> fault, body |-> NoFile,
     warned |-> r.warned]

\* The handler p, running r, answers and ends.
Respond(p, r, status, changes, fault) ==
    /\ resp' = Response(r, status, changes, fault)
    /\ req' = [req EXCEPT ![p] = Idle]

\* The handler p goes on, as r.
Continue(p, r) ==
    /\ req' = [req EXCEPT ![p] = r]
    /\ UNCHANGED resp

Init ==
    /\ shared_files = <<>>
    /\ users = <<>>
    /\ blobs = <<>>
    /\ nextId = 1
    /\ req = [p \in Procs |-> Idle]
    /\ resp = NoResponse
    /\ deleted = {}
    /\ uploaded = {}
    /\ calls = <<>>
    /\ now = 0
    /\ stored = <<>>
    /\ touched = [op |-> "none", path |-> <<>>]
    /\ returned = NoneReturned

(* router.post('/upload') ------------------------------------------------ *)

\* Validation, uuidv4() and the names derived from it, up to fs.writeFile.
\* A request whose type fileFilter refuses never reaches the handler: multer
\* hands the error to the application's error middleware, which answers 500.
UploadOf(p, userIds, files, mimeTypes) ==
    /\ Free(p)
    /\ \E userId \in userIds, file \in files, mime \in mimeTypes :
        IF file # NoFile /\ ~FileFilter(mime)
        THEN /\ Respond(p, [Idle EXCEPT !.op = "upload", !.userId = userId,
                                        !.mime = mime],
                        "InternalError", -1, FALSE)
             /\ UNCHANGED nextId
        ELSE IF userId = NoUserId \/ file = NoFile
        THEN /\ Respond(p, [Idle EXCEPT !.op = "upload", !.userId = userId],
                        "BadRequest", -1, FALSE)
             /\ UNCHANGED nextId
        ELSE /\ nextId <= MaxFileIds
             /\ Continue(p, [Idle EXCEPT !.op = "upload", !.pc = "write",
                                         !.userId = userId, !.fileId = nextId,
                                         !.body = file, !.mime = mime])
             /\ nextId' = nextId + 1
    /\ UNCHANGED <<shared_files, users, blobs, hist>>

\* Uploads of one allowed type.
UploadFrom(p, userIds, files) == UploadOf(p, userIds, files, {DefaultMime})

UploadStart(p) == UploadFrom(p, UserIds \cup {NoUserId}, Payloads \cup {NoFile})

\* await fs.writeFile(filePath, req.file.buffer)
UploadWrite(p) ==
    /\ Running(p, "upload", "write")
    /\ \/ /\ blobs' = WriteFile(SharedFilePath(req[p].fileId), req[p].body)
          /\ Continue(p, [req[p] EXCEPT !.pc = "create"])
       \/ /\ Respond(p, req[p], "InternalError", -1, TRUE)
          /\ UNCHANGED blobs
    /\ UNCHANGED <<shared_files, users, nextId, hist>>

\* await db.createSharedFile({...}); the catch block answers 500.
UploadCreate(p) ==
    /\ Running(p, "upload", "create")
    /\ \/ /\ ~CreateThrows(req[p].fileId)
          /\ shared_files' = CreateSharedFile(
                [fileId |-> req[p].fileId,
                 userId |-> req[p].userId,
                 originalName |-> OriginalName,
                 fileName |-> SharedFileName(req[p].fileId),
                 filePath |-> SharedFilePath(req[p].fileId),
                 fileUrl |-> SharedFileUrl(req[p].fileId),
                 fileSize |-> Len(req[p].body),
                 mimeType |-> req[p].mime,
                 description |-> NoDescription,
                 category |-> GetFileCategory(req[p].mime)])
          /\ Respond(p, req[p], "OK", -1, FALSE)
          /\ stored' = [f \in DOMAIN stored \cup {req[p].fileId} |->
                            IF f = req[p].fileId THEN req[p].body ELSE stored[f]]
       \/ /\ Respond(p, req[p], "InternalError", -1, TRUE)
          /\ UNCHANGED <<shared_files, stored>>
    /\ UNCHANGED <<users, blobs, nextId, deleted, uploaded, calls, now, touched,
                   returned>>

(* router.delete('/:fileId') --------------------------------------------- *)

\* Mutant of NotOwner: the ownership check lets every caller through.
NotOwnerNever(file, userId) == FALSE

\* file.user_id !== userId
NotOwner(file, userId) == file.user_id # userId

\* Validation, db.getSharedFile and the ownership check, up to fs.pathExists.
\* getSharedFile catches a storage error and returns null.
DeleteBy(p, userIds) ==
    /\ Free(p)
    /\ \E userId \in userIds, fileId \in 1..(nextId - 1),
          readFails \in BOOLEAN :
        LET file == IF readFails THEN NullRow ELSE GetSharedFile(fileId)
            r == [Idle EXCEPT !.op = "delete", !.userId = userId, !.fileId = fileId]
        IN  IF userId = NoUserId THEN Respond(p, r, "BadRequest", -1, FALSE)
            ELSE IF file = NullRow THEN Respond(p, r, "NotFound", -1, readFails)
            ELSE IF NotOwner(file, userId) THEN Respond(p, r, "Forbidden", -1, FALSE)
            ELSE Continue(p, [r EXCEPT !.pc = "exists", !.row = file])
    /\ UNCHANGED <<shared_files, users, blobs, nextId, hist>>

DeleteLookup(p) == DeleteBy(p, UserIds \cup {NoUserId})

\* if (await fs.pathExists(filePath))
DeleteExists(p) ==
    /\ Running(p, "delete", "exists")
    /\ Continue(p, [req[p] EXCEPT !.pc =
            IF PathExists(req[p].row.file_path) THEN "remove" ELSE "dbdelete"])
    /\ UNCHANGED <<shared_files, users, blobs, nextId, hist>>

\* await fs.remove(filePath)
DeleteRemove(p) ==
    /\ Running(p, "delete", "remove")
    /\ \/ /\ blobs' = FsRemove(req[p].row.file_path)
          /\ Continue(p, [req[p] EXCEPT !.pc = "dbdelete"])
       \/ /\ Respond(p, req[p], "InternalError", -1, TRUE)
          /\ UNCHANGED blobs
    /\ UNCHANGED <<shared_files, users, nextId, hist>>

\* await db.deleteSharedFile(fileId, userId); result.changes is not looked at.
DeleteRow(p) ==
    /\ Running(p, "delete", "dbdelete")
    /\ \/ /\ shared_files' = DeleteSharedFile(req[p].fileId, req[p].userId)
          /\ Respond(p, req[p], "OK", DeleteChanges(req[p].fileId, req[p].userId), FALSE)
          /\ deleted' = deleted \cup {<<req[p].fileId, req[p].userId>>}
          /\ UNCHANGED <<uploaded, calls, now, stored, touched,
                   returned>>
       \/ /\ Respond(p, req[p], "InternalError", -1, TRUE)
          /\ UNCHANGED <<shared_files, hist>>
    /\ UNCHANGED <<users, blobs, nextId>>

(* router.get('/download/:fileId') ---------------------------------------- *)

\* incrementDownloadCount calls on fileId that handlers in flight have yet to
\* make.
Pending(fileId) ==
    Cardinality({q \in Procs : /\ req[q].op = "download"
                               /\ req[q].fileId = fileId
                               /\ req[q].pc \in {"exists", "increment"}})

Called(fileId) == IF fileId \in DOMAIN calls THEN calls[fileId] ELSE 0

\* const file = await db.getSharedFile(fileId); if (!file) 404
DownloadLookup(p) ==
    /\ Free(p)
    /\ \E fileId \in 1..(nextId - 1), readFails \in BOOLEAN :
        LET file == IF readFails THEN NullRow ELSE GetSharedFile(fileId)
            r == [Idle EXCEPT !.op = "download", !.fileId = fileId]
        IN  /\ Called(fileId) + Pending(fileId) < MaxDownloads
            /\ IF file = NullRow THEN Respond(p, r, "NotFound", -1, readFails)
               ELSE Continue(p, [r EXCEPT !.pc = "exists", !.row = file])
    /\ UNCHANGED <<shared_files, users, blobs, nextId, hist>>

\* A download that does not look for the blob.
DownloadExistsSkipped(p) ==
    /\ Running(p, "download", "exists")
    /\ Continue(p, [req[p] EXCEPT !.pc = "increment"])
    /\ UNCHANGED <<shared_files, users, blobs, nextId, hist>>

\* if (!(await fs.pathExists(filePath))) 404
DownloadExists(p) ==
    /\ Running(p, "download", "exists")
    /\ IF PathExists(req[p].row.file_path)
       THEN Continue(p, [req[p] EXCEPT !.pc = "increment"])
       ELSE Respond(p, req[p], "NotFound", -1, FALSE)
    /\ UNCHANGED <<shared_files, users, blobs, nextId, hist>>

\* await db.incrementDownloadCount(fileId); the result is not looked at.
DownloadIncrement(p) ==
    /\ Running(p, "download", "increment")
    /\ \/ /\ shared_files' = IncrementDownloadCount(req[p].fileId)
          /\ Continue(p, [req[p] EXCEPT !.pc = "send",
                                        !.changes = IncrementChanges(req[p].fileId)])
          /\ calls' = IF req[p].fileId \in DOMAIN shared_files
                       THEN [f \in DOMAIN calls \cup {req[p].fileId} |->
                                IF f = req[p].fileId THEN Called(f) + 1 ELSE calls[f]]
                       ELSE calls
       \/ /\ Respond(p, req[p], "InternalError", -1, TRUE)
          /\ UNCHANGED <<shared_files, calls>>
    /\ UNCHANGED <<users, blobs, nextId, deleted, uploaded, now, stored, touched,
                   returned>>

\* res.sendFile(filePath): the content of the file as it is now; with no
\* callback given, a failure goes to the error handler of server.js (500).
DownloadSend(p) ==
    /\ Running(p, "download", "send")
    /\ \/ /\ PathExists(req[p].row.file_path)
          /\ resp' = [Response(req[p], "OK", req[p].changes, FALSE)
                        EXCEPT !.body = blobs[req[p].row.file_path]]
          /\ req' = [req EXCEPT ![p] = Idle]
       \/ /\ ~PathExists(req[p].row.file_path)
          /\ Respond(p, req[p], "InternalError", req[p].changes, FALSE)
       \/ Respond(p, req[p], "InternalError", req[p].changes, TRUE)
    /\ UNCHANGED <<shared_files, users, blobs, nextId, hist>>

\* CURRENT_TIMESTAMP: the clock of the database moves on.
Tick ==
    /\ now < MaxClock
    /\ now' = now + 1
    /\ UNCHANGED <<shared_files, users, blobs, nextId, req, resp, deleted, uploaded,
                   calls, stored, touched,
                   returned>>

(* router.post('/upload-picture') ----------------------------------------- *)

\* Validation, uuidv4() and the file name, up to fs.writeFile.
ReplaceStart(p) ==
    /\ Free(p)
    /\ \E userId \in ProfileUserIds \cup {NoUserId}, file \in Payloads \cup {NoFile},
          profile \in Profiles :
        IF userId = NoUserId \/ file = NoFile
        THEN /\ Respond(p, [Idle EXCEPT !.op = "replace", !.userId = userId],
                        "BadRequest", -1, FALSE)
             /\ UNCHANGED nextId
        ELSE /\ nextId <= MaxPicIds
             /\ Continue(p, [Idle EXCEPT !.op = "replace", !.pc = "write",
                                         !.userId = userId, !.fileId = nextId,
                                         !.body = file, !.profile = profile])
             /\ nextId' = nextId + 1
    /\ UNCHANGED <<shared_files, users, blobs, hist>>

\* A failed write that takes the picture the row names with it.
ReplaceWriteDropsOld(p) ==
    /\ Running(p, "replace", "write")
    /\ \/ /\ blobs' = WriteFile(ProfilePath(req[p].userId, req[p].fileId), req[p].body)
          /\ Continue(p, [req[p] EXCEPT !.pc = "stat"])
       \/ /\ Respond(p, req[p], "InternalError", -1, TRUE)
          /\ blobs' = IF req[p].userId \in DOMAIN users
                       THEN FsRemove(users[req[p].userId].profile_picture_path)
                       ELSE blobs
    /\ UNCHANGED <<shared_files, users, nextId, hist>>

\* await fs.writeFile(filePath, req.file.buffer)
ReplaceWrite(p) ==
    /\ Running(p, "replace", "write")
    /\ \/ /\ blobs' = WriteFile(ProfilePath(req[p].userId, req[p].fileId), req[p].body)
          /\ Continue(p, [req[p] EXCEPT !.pc = "stat"])
       \/ /\ Respond(p, req[p], "InternalError", -1, TRUE)
          /\ UNCHANGED blobs
    /\ UNCHANGED <<shared_files, users, nextId, hist>>

\* const stats = await fs.stat(filePath)
ReplaceStat(p) ==
    /\ Running(p, "replace", "stat")
    /\ \/ /\ PathExists(ProfilePath(req[p].userId, req[p].fileId))
          /\ Continue(p, [req[p] EXCEPT !.pc = "getuser"])
       \/ /\ ~PathExists(ProfilePath(req[p].userId, req[p].fileId))
          /\ Respond(p, req[p], "InternalError", -1, FALSE)
       \/ Respond(p, req[p], "InternalError", -1, TRUE)
    /\ UNCHANGED <<shared_files, users, blobs, nextId, hist>>

\* const existingUser = await db.getUser(userId), inside the try block;
\* getUser catches a storage error and returns null.
ReplaceGetUser(p) ==
    /\ Running(p, "replace", "getuser")
    /\ \E readFails \in BOOLEAN :
        LET existingUser == IF readFails THEN NullRow ELSE GetUser(req[p].userId)
        IN  IF existingUser # NullRow /\ existingUser.profile_picture_path # NullPath
            THEN Continue(p, [req[p] EXCEPT !.pc = "oldexists", !.row = existingUser])
            ELSE Continue(p, [req[p] EXCEPT !.pc = "upsert"])
    /\ UNCHANGED <<shared_files, users, blobs, nextId, hist>>

\* if (await fs.pathExists(oldPath))
ReplaceOldExists(p) ==
    /\ Running(p, "replace", "oldexists")
    /\ Continue(p, [req[p] EXCEPT !.pc =
            IF PathExists(req[p].row.profile_picture_path) THEN "oldremove" ELSE "upsert"])
    /\ UNCHANGED <<shared_files, users, blobs, nextId, hist>>

\* Mutant of ReplaceOldRemove: a failed removal is not caught on the spot but
\* by the outer catch block, which answers 500.
ReplaceOldRemoveThrows(p) ==
    /\ Running(p, "replace", "oldremove")
    /\ \/ /\ blobs' = FsRemove(req[p].row.profile_picture_path)
          /\ Continue(p, [req[p] EXCEPT !.pc = "upsert"])
       \/ /\ Respond(p, req[p], "InternalError", -1, TRUE)
          /\ UNCHANGED blobs
    /\ UNCHANGED <<shared_files, users, nextId, hist>>

\* await fs.remove(oldPath); the inner catch block warns (warned) and the
\* handler goes on.
ReplaceOldRemove(p) ==
    /\ Running(p, "replace", "oldremove")
    /\ \/ /\ blobs' = FsRemove(req[p].row.profile_picture_path)
          /\ Continue(p, [req[p] EXCEPT !.pc = "upsert"])
       \/ /\ Continue(p, [req[p] EXCEPT !.pc = "upsert", !.warned = TRUE])
          /\ UNCHANGED blobs
    /\ UNCHANGED <<shared_files, users, nextId, hist>>

\* await db.upsertUser({...}) with the new path and url; the outer catch answers 500.
ReplaceUpsert(p) ==
    /\ Running(p, "replace", "upsert")
    /\ \/ /\ users' = UpsertUser(
                [userId |-> req[p].userId,
                 username |-> req[p].profile.username,
                 email |-> req[p].profile.email,
                 profilePicturePath |-> ProfilePath(req[p].userId, req[p].fileId),
                 profilePictureUrl |-> ProfileUrl(req[p].userId, req[p].fileId)])
          /\ Respond(p, req[p], "OK", -1, FALSE)
          /\ uploaded' = uploaded \cup {req[p].fileId}
       \/ /\ Respond(p, req[p], "InternalError", -1, TRUE)
          /\ UNCHANGED <<users, uploaded>>
    /\ UNCHANGED <<shared_files, blobs, nextId, deleted, calls, now, stored, touched,
                   returned>>

(* router.delete('/picture/:userId') -------------------------------------- *)

\* db.getUser and the check of the picture path, up to fs.pathExists.
DeletePicLookup(p) ==
    /\ Free(p)
    /\ \E userId \in ProfileUserIds, readFails \in BOOLEAN :
        LET user == IF readFails THEN NullRow ELSE GetUser(userId)
            r == [Idle EXCEPT !.op = "deletepic", !.userId = userId]
        IN  IF user = NullRow \/ user.profile_picture_path = NullPath
            THEN Respond(p, r, "NotFound", -1, readFails)
            ELSE Continue(p, [r EXCEPT !.pc = "exists", !.row = user])
    /\ UNCHANGED <<shared_files, users, blobs, nextId, hist>>

\* if (await fs.pathExists(filePath))
DeletePicExists(p) ==
    /\ Running(p, "deletepic", "exists")
    /\ Continue(p, [req[p] EXCEPT !.pc =
            IF PathExists(req[p].row.profile_picture_path) THEN "remove" ELSE "upsert"])
    /\ UNCHANGED <<shared_files, users, blobs, nextId, hist>>

\* await fs.remove(filePath)
DeletePicRemove(p) ==
    /\ Running(p, "deletepic", "remove")
    /\ \/ /\ blobs' = FsRemove(req[p].row.profile_picture_path)
          /\ Continue(p, [req[p] EXCEPT !.pc = "upsert"])
       \/ /\ Respond(p, req[p], "InternalError", -1, TRUE)
          /\ UNCHANGED blobs
    /\ UNCHANGED <<shared_files, users, nextId, hist>>

\* await db.upsertUser({...}) with the user's name and email and null picture fields.
DeletePicUpsert(p) ==
    /\ Running(p, "deletepic", "upsert")
    /\ \/ /\ users' = UpsertUser(
                [userId |-> req[p].userId,
                 username |-> req[p].row.username,
                 email |-> req[p].row.email,
                 profilePicturePath |-> NullPath,
                 profilePictureUrl |-> NullPath])
          /\ Respond(p, req[p], "OK", -1, FALSE)
       \/ /\ Respond(p, req[p], "InternalError", -1, TRUE)
          /\ UNCHANGED users
    /\ UNCHANGED <<shared_files, blobs, nextId, hist>>

(* router.post('/sync') --------------------------------------------------- *)

\* existingUser?.profile_picture_path || null, and the same for the url.
\* A sync that carries the path forward and forgets the url.
CarryForwardPathOnly(existingUser, field) ==
    IF existingUser = NullRow \/ field = "profile_picture_url"
    THEN NullPath ELSE existingUser[field]

CarryForward(existingUser, field) ==
    IF existingUser = NullRow THEN NullPath ELSE existingUser[field]

\* Validation and db.getUser, up to db.upsertUser.
SyncFrom(p, profiles) ==
    /\ Free(p)
    /\ \E userId \in ProfileUserIds \cup {NoUserId}, hasData \in BOOLEAN,
          profileData \in profiles, readFails \in BOOLEAN :
        LET existingUser == IF readFails THEN NullRow ELSE GetUser(userId)
            r == [Idle EXCEPT !.op = "sync", !.userId = userId]
        IN  IF userId = NoUserId \/ ~hasData
            THEN Respond(p, r, "BadRequest", -1, FALSE)
            ELSE Continue(p, [r EXCEPT !.pc = "upsert", !.profile = profileData,
                                       !.row = existingUser])
    /\ UNCHANGED <<shared_files, users, blobs, nextId, hist>>

SyncStart(p) == SyncFrom(p, Profiles)

\* await db.upsertUser({...}) with the picture fields read before.
SyncUpsert(p) ==
    /\ Running(p, "sync", "upsert")
    /\ \/ /\ users' = UpsertUser(
                [userId |-> req[p].userId,
                 username |-> req[p].profile.username,
                 email |-> req[p].profile.email,
                 profilePicturePath |-> CarryForward(req[p].row, "profile_picture_path"),
                 profilePictureUrl |-> CarryForward(req[p].row, "profile_picture_url")])
          /\ Respond(p, req[p], "OK", -1, FALSE)
       \/ /\ Respond(p, req[p], "InternalError", -1, TRUE)
          /\ UNCHANGED users
    /\ UNCHANGED <<shared_files, blobs, nextId, hist>>

FilesNext ==
    \E p \in Procs :
        \/ UploadStart(p)
        \/ UploadWrite(p)
        \/ UploadCreate(p)
        \/ DeleteLookup(p)
        \/ DeleteExists(p)
        \/ DeleteRemove(p)
        \/ DeleteRow(p)

ProfileNext ==
    \E p \in Procs :
        \/ ReplaceStart(p)
        \/ ReplaceWrite(p)
        \/ ReplaceStat(p)
        \/ ReplaceGetUser(p)
        \/ ReplaceOldExists(p)
        \/ ReplaceOldRemove(p)
        \/ ReplaceUpsert(p)
        \/ DeletePicLookup(p)
        \/ DeletePicExists(p)
        \/ DeletePicRemove(p)
        \/ DeletePicUpsert(p)
        \/ SyncStart(p)
        \/ SyncUpsert(p)

Next == FilesNext \/ ProfileNext

\* Every handler of the two routers.
Spec == Init /\ [][Next]_vars

\* The shared-file handlers alone, and the profile handlers alone: the two
\* tables are independent, and so are the two buckets of the blob store.
SpecFiles == Init /\ [][FilesNext]_vars

SpecProfile == Init /\ [][ProfileNext]_vars

\* One owner uploading files of different content and downloading them.
DownloadNext ==
    \E p \in Procs :
        \/ UploadFrom(p, {"u1"}, DownloadPayloads) \/ UploadWrite(p) \/ UploadCreate(p)
        \/ DownloadLookup(p) \/ DownloadExists(p)
        \/ DownloadIncrement(p) \/ DownloadSend(p)

SpecDownload == Init /\ [][DownloadNext]_vars

UploadCounted(p) == nextId <= MaxCountedFiles /\ UploadFrom(p, {"u1"}, Payloads)

\* Downloads of a file interleaved with its upload and its delete.
CounterNext ==
    \E p \in Procs :
        \/ UploadCounted(p) \/ UploadWrite(p) \/ UploadCreate(p)
        \/ DownloadLookup(p) \/ DownloadExists(p)
        \/ DownloadIncrement(p) \/ DownloadSend(p)
        \/ DeleteBy(p, {"u1"}) \/ DeleteExists(p) \/ DeleteRemove(p) \/ DeleteRow(p)

SpecCounter == Init /\ [][CounterNext]_vars

(* Callers of the repository alone: each dbHelpers function is one          *)
(* statement, run to its end before the next one starts.                    *)

RepoResult(op, fileId, status, changes, fault) ==
    Response([Idle EXCEPT !.op = op, !.fileId = fileId], status, changes, fault)

RepoCreateOf(userIds, originalNames, files) ==
    /\ nextId <= MaxFileIds
    /\ \E file \in files, userId \in userIds, originalName \in originalNames :
        \/ /\ shared_files' = CreateSharedFile(
                    [fileId |-> nextId, userId |-> userId,
                     originalName |-> originalName,
                     fileName |-> SharedFileName(nextId),
                     filePath |-> SharedFilePath(nextId),
                     fileUrl |-> SharedFileUrl(nextId),
                     fileSize |-> Len(file),
                     mimeType |-> DefaultMime,
                     description |-> NoDescription,
                     category |-> GetFileCategory(DefaultMime)])
           /\ resp' = RepoResult("create", nextId, "OK", 1, FALSE)
           /\ nextId' = nextId + 1
        \/ /\ resp' = RepoResult("create", nextId, "Throws", -1, TRUE)
           /\ UNCHANGED <<shared_files, nextId>>
    /\ UNCHANGED <<users, blobs, req, hist>>

RepoCreateFor(userIds) == RepoCreateOf(userIds, {OriginalName}, DownloadPayloads)

RepoCreate == RepoCreateFor({"u1"})

RepoIncrement ==
    /\ \E fileId \in 1..MaxFileIds :
        /\ Called(fileId) < MaxDownloads
        /\ \/ /\ shared_files' = IncrementDownloadCount(fileId)
              /\ resp' = RepoResult("increment", fileId, "OK",
                                    IncrementChanges(fileId), FALSE)
              /\ calls' = IF fileId \in DOMAIN shared_files
                           THEN [f \in DOMAIN calls \cup {fileId} |->
                                    IF f = fileId THEN Called(f) + 1 ELSE calls[f]]
                           ELSE calls
           \/ /\ resp' = RepoResult("increment", fileId, "Throws", -1, TRUE)
              /\ UNCHANGED <<shared_files, calls>>
    /\ UNCHANGED <<users, blobs, nextId, req, deleted, uploaded, now, stored, touched,
                   returned>>

RepoDeleteBy(userIds) ==
    /\ \E fileId \in 1..MaxFileIds, userId \in userIds :
        \/ /\ shared_files' = DeleteSharedFile(fileId, userId)
           /\ resp' = [RepoResult("delete", fileId, "OK",
                                  DeleteChanges(fileId, userId), FALSE)
                           EXCEPT !.userId = userId]
        \/ /\ resp' = [RepoResult("delete", fileId, "Throws", -1, TRUE)
                           EXCEPT !.userId = userId]
           /\ UNCHANGED shared_files
    /\ UNCHANGED <<users, blobs, nextId, req, hist>>

RepoDelete == RepoDeleteBy({"u1"})

RepoNext == Tick \/ RepoCreate \/ RepoIncrement \/ RepoDelete

SpecRepo == Init /\ [][RepoNext]_vars

\* Rows of one owner, deleted by the owner and by somebody else.
RowsNext == RepoCreate \/ RepoIncrement \/ RepoDeleteBy(UserIds)

SpecRows == Init /\ [][RowsNext]_vars

\* db.getUserFileStats(userId), with or without a storage error.
RepoStats ==
    /\ \E userId \in UserIds, readFails \in BOOLEAN :
        returned' = Returned("getUserFileStats", <<userId>>,
                             IF readFails THEN StatsOnError
                             ELSE GetUserFileStats(userId))
    /\ UNCHANGED <<shared_files, users, blobs, nextId, req, resp, deleted,
                   uploaded, calls, now, stored, touched>>

\* Files of two owners created, downloaded, deleted and counted.
StatsNext ==
    RepoCreateFor(UserIds) \/ RepoIncrement \/ RepoDeleteBy(UserIds) \/ RepoStats

SpecStats == Init /\ [][StatsNext]_vars

\* Original names and search terms, the latter as the characters typed.
SearchNames == {"notes.txt", "Report.PDF"}

SearchTerms ==
    {<<"t", "x", "t">>, <<"T", "E", "X", "T">>, <<"p", "d", "f">>, <<"z">>,
     <<"%">>, <<"_">>}

\* db.searchFiles(userId, searchTerm), with or without a storage error.
RepoSearch ==
    /\ \E userId \in UserIds, searchTerm \in SearchTerms :
        \/ \E files \in SearchFiles(userId, searchTerm) :
              returned' = Returned("searchFiles", <<userId, searchTerm>>, files)
        \/ returned' = Returned("searchFiles", <<userId, searchTerm>>, <<>>)
    /\ UNCHANGED <<shared_files, users, blobs, nextId, req, resp, deleted,
                   uploaded, calls, now, stored, touched>>

\* Files of two owners under two names, created at two times and searched.
SearchNext ==
    Tick \/ RepoCreateOf(UserIds, SearchNames, Payloads) \/ RepoSearch

SpecSearch == Init /\ [][SearchNext]_vars

\* db.getUserSharedFiles(userId, limit, offset), with or without a storage
\* error.
RepoList ==
    /\ \E userId \in UserIds, limit \in 0..MaxLimit, offset \in 0..MaxOffset :
        \/ \E files \in GetUserSharedFiles(userId, limit, offset) :
              returned' = Returned("getUserSharedFiles",
                                   <<userId, limit, offset>>, files)
        \/ returned' = Returned("getUserSharedFiles",
                                <<userId, limit, offset>>, <<>>)
    /\ UNCHANGED <<shared_files, users, blobs, nextId, req, resp, deleted,
                   uploaded, calls, now, stored, touched>>

\* Files of two owners, created at two times and listed page by page.
ListNext ==
    Tick \/ RepoCreateOf(UserIds, {OriginalName}, Payloads) \/ RepoList

SpecList == Init /\ [][ListNext]_vars

\* The pieces MIME types are made of here, and the types classified: every
\* type of one or two pieces, and application/pdf with something after it.
MimeAtoms ==
    {"image/", "video/", "audio/", "text/", "application/", "pdf", "word",
     "document", "zip", "IMAGE/", "x"}

MimeTypes ==
    MimeAtoms \X MimeAtoms \cup {<<a>> : a \in MimeAtoms}
        \cup {<<"application/", "pdf", a>> : a \in MimeAtoms}

\* The types of the files uploaded; fileFilter refuses the last one.
UploadedTypes ==
    {<<"image/", "x">>, <<"application/", "x-", "zip", "-compressed">>,
     <<"application/", "ms", "word">>, <<"application/", "x">>}

\* getFileCategory(mimetype), called on its own.
Classify ==
    /\ \E mimeType \in MimeTypes :
        returned' = Returned("getFileCategory", <<mimeType>>,
                             GetFileCategory(mimeType))
    /\ UNCHANGED <<shared_files, users, blobs, nextId, req, resp, deleted,
                   uploaded, calls, now, stored, touched>>

UploadTyped(p) ==
    nextId <= MaxCountedFiles /\ UploadOf(p, {"u1"}, Payloads, UploadedTypes)

\* Types classified, and files of several types uploaded.
CategoryNext ==
    \/ Classify
    \/ \E p \in Procs : UploadTyped(p) \/ UploadWrite(p) \/ UploadCreate(p)

SpecCategory == Init /\ [][CategoryNext]_vars

(* formatFileSize(bytes).  A size is <<mantissa, shift>> and stands for      *)
(* mantissa * 2^shift bytes, a number that a double holds exactly; a number *)
(* put into a string is the sequence of its integer part and its decimals.  *)

RECURSIVE Pow2(_)
Pow2(n) == IF n = 0 THEN 1 ELSE 2 * Pow2(n - 1)

\* floor(log2(n)) for n >= 1
RECURSIVE Log2Floor(_)
Log2Floor(n) == IF n < 2 THEN 0 ELSE 1 + Log2Floor(n \div 2)

K == 1024
Sizes == <<"Bytes", "KB", "MB", "GB">>

\* Math.floor(Math.log(bytes) / Math.log(k))
UnitIndex(bytes) == (Log2Floor(bytes[1]) + bytes[2]) \div Log2Floor(K)

\* bytes / Math.pow(k, i) as a fraction <<numerator, denominator>>
Scaled(bytes) ==
    LET shift == bytes[2] - Log2Floor(K) * UnitIndex(bytes)
    IN  IF shift >= 0 THEN <<bytes[1] * Pow2(shift), 1>>
        ELSE <<bytes[1], Pow2(0 - shift)>>

\* x.toFixed(2): the nearest number of hundredths, the larger of two equally
\* near, written with two decimals.
ToFixed(x) ==
    LET n == (200 * x[1] + x[2]) \div (2 * x[2])
    IN  <<n \div 100, (n % 100) \div 10, n % 10>>

\* Mutant of ParseFloat: the decimals are kept as toFixed wrote them.
ParseFloatKeepsZeros(digits) == digits

\* parseFloat(string) + ' ': the number read back and written in the shortest
\* way, without decimals that are zero at the end.
ParseFloat(digits) ==
    IF digits[3] # 0 THEN digits
    ELSE IF digits[2] # 0 THEN <<digits[1], digits[2]>>
    ELSE <<digits[1]>>

\* sizes[i] is undefined past the end of the table.
FormatFileSize(bytes) ==
    IF bytes[1] = 0 THEN [number |-> <<0>>, unit |-> "Bytes"]
    ELSE [number |-> ParseFloat(ToFixed(Scaled(bytes))),
          unit |-> IF UnitIndex(bytes) + 1 <= Len(Sizes)
                   THEN Sizes[UnitIndex(bytes) + 1] ELSE "undefined"]

Format ==
    /\ \E mantissa \in 0..MaxMantissa, shift \in 0..MaxShift :
        returned' = Returned("formatFileSize", <<mantissa, shift>>,
                             FormatFileSize(<<mantissa, shift>>))
    /\ UNCHANGED <<shared_files, users, blobs, nextId, req, resp, deleted,
                   uploaded, calls, now, stored, touched>>

SpecFormat == Init /\ [][Format]_vars

\* uuidv4() returns an identifier it has returned before: the upload goes on
\* with the file name and path of the earlier upload.
UploadColliding(p) ==
    /\ Free(p)
    /\ \E fileId \in 1..(nextId - 1), file \in DownloadPayloads :
        Continue(p, [Idle EXCEPT !.op = "upload", !.pc = "write",
                                 !.userId = "u1", !.fileId = fileId,
                                 !.body = file, !.mime = DefaultMime])
    /\ UNCHANGED <<shared_files, users, blobs, nextId, hist>>

\* Uploads of one owner, some of them with a repeated identifier.
CollideNext ==
    \E p \in Procs :
        \/ UploadFrom(p, {"u1"}, DownloadPayloads) \/ UploadColliding(p)
        \/ UploadWrite(p) \/ UploadCreate(p)

SpecCollide == Init /\ [][CollideNext]_vars

\* One picture upload fewer than elsewhere.
ReplaceCounted(p) == nextId < MaxPicIds /\ ReplaceStart(p)

\* One user whose profile is synced under changing names while a picture is
\* uploaded and deleted.
AccountNext ==
    \E p \in Procs :
        \/ ReplaceCounted(p) \/ ReplaceWrite(p) \/ ReplaceStat(p)
        \/ ReplaceGetUser(p) \/ ReplaceOldExists(p) \/ ReplaceOldRemove(p)
        \/ ReplaceUpsert(p)
        \/ DeletePicLookup(p) \/ DeletePicExists(p) \/ DeletePicRemove(p)
        \/ DeletePicUpsert(p)
        \/ SyncFrom(p, RenamingProfiles) \/ SyncUpsert(p)

SpecAccount == Init /\ [][AccountNext]_vars

\* One user synced, given a picture and relieved of it while the clock of the
\* database moves on.
TimesNext ==
    \/ Tick
    \/ \E p \in Procs :
        \/ ReplaceCounted(p) \/ ReplaceWrite(p) \/ ReplaceStat(p)
        \/ ReplaceGetUser(p) \/ ReplaceOldExists(p) \/ ReplaceOldRemove(p)
        \/ ReplaceUpsert(p)
        \/ DeletePicLookup(p) \/ DeletePicExists(p) \/ DeletePicRemove(p)
        \/ DeletePicUpsert(p)
        \/ SyncStart(p) \/ SyncUpsert(p)

SpecTimes == Init /\ [][TimesNext]_vars

----------------------------------------------------------------------------
(* File system paths.  A string is a sequence of atoms: "/" is the         *)
(* separator, ".." the two dots, every other atom a run of characters      *)
(* without a separator.  A path is a sequence of segments, and a segment   *)
(* is the atoms between two separators.  touched is the path the last      *)
(* filesystem call was made on, and the operation that made it.            *)

MaxUserIdLen == 5
MaxNameLen == 3

Strings(atoms, n) == UNION {[1..k -> atoms] : k \in 0..n}

\* req.body.userId, any non-empty string; req.file.originalname.
UserIdStrings == Strings({"u", "/", ".."}, MaxUserIdLen) \ {<<>>}
OriginalNames == Strings({"x", "/", "..", ".txt"}, MaxNameLen) \ {<<>>}

\* The segments of a string: the runs of atoms between separators.
RECURSIVE Split(_, _, _)
Split(str, cur, acc) ==
    IF str = <<>> THEN (IF cur = <<>> THEN acc ELSE Append(acc, cur))
    ELSE IF Head(str) = "/"
         THEN Split(Tail(str), <<>>, IF cur = <<>> THEN acc ELSE Append(acc, cur))
         ELSE Split(Tail(str), Append(cur, Head(str)), acc)

\* Normalisation of an absolute path: a ".." segment drops the segment
\* before it, and is dropped itself at the root.
RECURSIVE Resolve(_, _)
Resolve(segs, acc) ==
    IF segs = <<>> THEN acc
    ELSE IF Head(segs) = <<"..">>
         THEN Resolve(Tail(segs), IF acc = <<>> THEN acc ELSE SubSeq(acc, 1, Len(acc) - 1))
         ELSE Resolve(Tail(segs), Append(acc, Head(segs)))

RECURSIVE Joined(_)
Joined(parts) ==
    IF parts = <<>> THEN <<>>
    ELSE IF Len(parts) = 1 THEN Head(parts)
    ELSE Head(parts) \o <<"/">> \o Joined(Tail(parts))

\* path.join(...parts), the first part being absolute
PathJoin(parts) == Resolve(Split(Joined(parts), <<>>, <<>>), <<>>)

\* __dirname of the route modules
Dirname == <<"/", "app", "/", "routes">>

BlobRoot == <<(<<"app">>), (<<"uploads">>)>>
ProfilesBucket == Append(BlobRoot, <<"profiles">>)
SharedBucket == Append(BlobRoot, <<"shared">>)

\* The path lies below dir.
Inside(path, dir) ==
    Len(path) > Len(dir) /\ SubSeq(path, 1, Len(dir)) = dir

\* The atoms of str after its last separator.
RECURSIVE Basename(_)
Basename(str) ==
    IF str = <<>> THEN <<>>
    ELSE IF str[Len(str)] = "/" THEN <<>>
    ELSE Append(Basename(SubSeq(str, 1, Len(str) - 1)), str[Len(str)])

\* path.extname(name): from the last dot of the base name, if that dot is
\* not its first character.
ExtName(name) ==
    LET base == Basename(name)
    IN  IF Len(base) < 2 THEN <<>>
        ELSE IF base[Len(base)] = ".txt" THEN <<".txt">>
        ELSE IF base[Len(base)] = ".." THEN <<".">>
        ELSE <<>>

\* `profile_${userId}_${fileId}${fileExtension}`
ProfileFileNameOf(userId, fileId, ext) ==
    <<"profile_">> \o userId \o <<"_", ToString(fileId)>> \o ext

\* `${fileId}${fileExtension}`
SharedFileNameOf(fileId, ext) == <<ToString(fileId)>> \o ext

\* fs.writeFile of a picture upload
PathReplaceWrite ==
    /\ \E userId \in UserIdStrings :
        touched' = [op |-> "replace",
                    path |-> PathJoin(<<Dirname, <<"..", "/", "uploads", "/", "profiles">>,
                                       ProfileFileNameOf(userId, nextId, <<".jpg">>)>>)]
    /\ UNCHANGED <<shared_files, users, blobs, nextId, req, resp, deleted, uploaded,
                   calls, now, stored, returned>>

\* pathExists, remove and sendFile of the path a users row holds, which is
\* `uploads/profiles/${fileName}`
PathPictureRead ==
    /\ \E userId \in UserIdStrings :
        touched' = [op |-> "picture",
                    path |-> PathJoin(<<Dirname, <<"..">>,
                                       <<"uploads", "/", "profiles", "/">>
                                         \o ProfileFileNameOf(userId, nextId, <<".jpg">>)>>)]
    /\ UNCHANGED <<shared_files, users, blobs, nextId, req, resp, deleted, uploaded,
                   calls, now, stored, returned>>

\* fs.writeFile of a file upload
PathUploadWrite ==
    /\ \E name \in OriginalNames :
        touched' = [op |-> "upload",
                    path |-> PathJoin(<<Dirname, <<"..", "/", "uploads", "/", "shared">>,
                                       SharedFileNameOf(nextId, ExtName(name))>>)]
    /\ UNCHANGED <<shared_files, users, blobs, nextId, req, resp, deleted, uploaded,
                   calls, now, stored, returned>>

\* pathExists, remove and sendFile of the path a shared_files row holds,
\* which is `uploads/shared/${fileName}`
PathSharedRead ==
    /\ \E name \in OriginalNames :
        touched' = [op |-> "shared",
                    path |-> PathJoin(<<Dirname, <<"..">>,
                                       <<"uploads", "/", "shared", "/">>
                                         \o SharedFileNameOf(nextId, ExtName(name))>>)]
    /\ UNCHANGED <<shared_files, users, blobs, nextId, req, resp, deleted, uploaded,
                   calls, now, stored, returned>>

PathsNext == PathReplaceWrite \/ PathPictureRead \/ PathUploadWrite \/ PathSharedRead

SpecPaths == Init /\ [][PathsNext]_vars

----------------------------------------------------------------------------
(* Vocabulary of the properties.                                           *)

\* The handler p, at pc of op, answers in this step: resp' is its response.
Answers(p, op, pc) == Running(p, op, pc) /\ req'[p] = Idle

\* A request is answered by the step that receives it: resp' is the response,
\* and it names the request.
AnsweredAtOnce(op) == req' = req /\ resp' # resp /\ resp'.op = op

\* The handler p gets past the checks of op in this step and goes on.
Admitted(p, op) == Free(p) /\ req'[p].op = op

\* No handler is working on the profile of userId.
PictureQuiet(userId) == \A p \in Procs : Free(p) \/ req[p].userId # userId

RowExists(fileId) == fileId \in DOMAIN shared_files

BlobExists(fileId) == SharedFilePath(fileId) \in DOMAIN blobs

----------------------------------------------------------------------------
(* Shared files: upload and delete (SpecFiles).                            *)

\* C1: when createSharedFile fails after the blob was written, the blob at the
\* just-written path is gone by the time the error is answered.
C1_FailedCreateRemovesBlob ==
    [][\A p \in Procs :
        (Answers(p, "upload", "create") /\ resp'.status = "InternalError")
            => SharedFilePath(req[p].fileId) \notin DOMAIN blobs']_vars

\* C2: in every reachable state, every shared_files row has a blob at its
\* file_path.
C2_EveryRowHasItsBlob ==
    \A f \in DOMAIN shared_files : shared_files[f].file_path \in DOMAIN blobs

\* C3: a delete removes the blob only after its row delete has removed the
\* row, so the row of the file is gone when the blob goes.
C3_RowDeletedBeforeBlob ==
    [][\A p \in Procs :
        (/\ Running(p, "delete", "remove")
         /\ req[p].row.file_path \in DOMAIN blobs
         /\ req[p].row.file_path \notin DOMAIN blobs')
            => ~RowExists(req[p].fileId)]_vars

\* C5: a delete by a caller who is not the owner of the row is answered by
\* the step that looks the row up, that step changes neither the table nor
\* the blob store, its answer is Forbidden whenever the lookup read the row,
\* and no handler of such a delete ever goes on to the steps that change them.
C5_ForbiddenBeforeAnyMutation ==
    [][/\ \A p \in Procs :
            Admitted(p, "delete") => req'[p].row.user_id = req'[p].userId
       /\ (/\ AnsweredAtOnce("delete")
           /\ resp'.userId # NoUserId
           /\ RowExists(resp'.fileId)
           /\ shared_files[resp'.fileId].user_id # resp'.userId)
            => /\ ~resp'.fault => resp'.status = "Forbidden"
               /\ resp'.status \in {"Forbidden", "NotFound"}
               /\ UNCHANGED <<shared_files, blobs>>]_vars

\* C5 witness: a non-owner has just been answered Forbidden, and the row and
\* its blob are there.
C5_Witness ==
    /\ resp.op = "delete" /\ resp.status = "Forbidden"
    /\ RowExists(resp.fileId)
    /\ shared_files[resp.fileId].user_id # resp.userId
    /\ BlobExists(resp.fileId)

C7_InterleavedDeletesSucceed ==
    [][\A p \in Procs :
        (/\ req[p].op = "delete" /\ req[p].pc \in {"exists", "remove", "dbdelete"}
         /\ req'[p] = Idle
         /\ ~resp'.fault)
            => /\ resp'.status = "OK"
               /\ resp'.changes = (IF RowExists(req[p].fileId) THEN 1 ELSE 0)
               /\ req[p].fileId \notin DOMAIN shared_files'
               /\ req[p].row.file_path \notin DOMAIN blobs']_vars

\* C7 witness: a delete that had read the row as existing has just answered
\* success with zero rows affected: another delete removed the row meanwhile.
C7_Witness ==
    /\ resp.op = "delete" /\ resp.status = "OK" /\ resp.changes = 0
    /\ <<resp.fileId, resp.userId>> \in deleted
    /\ ~RowExists(resp.fileId) /\ ~BlobExists(resp.fileId)

----------------------------------------------------------------------------
(* Profile pictures: upload, delete and sync (SpecProfile).                *)

NewPath(p) == ProfilePath(req[p].userId, req[p].fileId)

NewUrl(p) == ProfileUrl(req[p].userId, req[p].fileId)

HasPicture(userId) ==
    userId \in DOMAIN users /\ users[userId].profile_picture_path # NullPath

\* C4: a picture upload removes the previous blob only once the user row
\* holds the new path, and when its upsert fails the row still names a blob
\* that exists.
C4_OldBlobOutlivesFailedUpsert ==
    [][\A p \in Procs :
        /\ (/\ Running(p, "replace", "oldremove")
            /\ req[p].row.profile_picture_path \in DOMAIN blobs
            /\ req[p].row.profile_picture_path \notin DOMAIN blobs')
                => (HasPicture(req[p].userId)
                    /\ users[req[p].userId].profile_picture_path = NewPath(p))
        /\ (/\ Answers(p, "replace", "upsert")
            /\ resp'.status = "InternalError"
            /\ HasPicture(req[p].userId))
                => users'[req[p].userId].profile_picture_path \in DOMAIN blobs']_vars

\* C8: when the last answer is the success of a picture upload and no handler
\* is working on that user, the user row holds the path and url of that
\* upload and the blob is there; so of two interleaved uploads the one whose
\* upsert came last is the one referenced.
C8_LastUpsertWins ==
    (/\ resp.op = "replace" /\ resp.status = "OK"
     /\ PictureQuiet(resp.userId))
        => /\ resp.userId \in DOMAIN users
           /\ users[resp.userId].profile_picture_path
                = ProfilePath(resp.userId, resp.fileId)
           /\ users[resp.userId].profile_picture_url
                = ProfileUrl(resp.userId, resp.fileId)
           /\ ProfilePath(resp.userId, resp.fileId) \in DOMAIN blobs

\* C8 witness: the upload answered last took its id before another upload
\* that has answered success too, so the two were in flight together and the
\* one that started first committed last; the user had a picture before both.
C8_Witness ==
    /\ resp.op = "replace" /\ resp.status = "OK"
    /\ PictureQuiet(resp.userId)
    /\ \E j \in uploaded : j > resp.fileId
    /\ \E i \in uploaded : i < resp.fileId
    /\ users[resp.userId].profile_picture_path = ProfilePath(resp.userId, resp.fileId)

\* C9: a user row with a picture path, while no handler is working on that
\* user, names a blob that exists.
C9_PicturePathHasBlob ==
    \A u \in DOMAIN users :
        (users[u].profile_picture_path # NullPath /\ PictureQuiet(u))
            => users[u].profile_picture_path \in DOMAIN blobs

\* C10: the write of a sync leaves the picture path and url of a user who has
\* a picture as they were just before the write.
C10_SyncKeepsPicture ==
    [][\A p \in Procs :
        (/\ Answers(p, "sync", "upsert")
         /\ resp'.status = "OK"
         /\ HasPicture(req[p].userId))
            => /\ users'[req[p].userId].profile_picture_path
                    = users[req[p].userId].profile_picture_path
               /\ users'[req[p].userId].profile_picture_url
                    = users[req[p].userId].profile_picture_url]_vars

----------------------------------------------------------------------------
(* Orphaned blobs.                                                         *)

AllQuiet == \A p \in Procs : Free(p)

\* The blob at path is named by a shared_files row or by a users row.
Referenced(path) ==
    \/ \E f \in DOMAIN shared_files : shared_files[f].file_path = path
    \/ \E u \in DOMAIN users : users[u].profile_picture_path = path

\* C11: in every state where no operation is in progress, each blob in the
\* store is referenced by a shared_files row or by a users row.
C11_NoOrphanedBlob ==
    AllQuiet => \A path \in DOMAIN blobs : Referenced(path)

----------------------------------------------------------------------------
(* Failed write of a new picture.                                          *)

\* C12: when the write of the new blob fails in a picture upload, the step
\* that answers the error leaves the users table as it was and removes no
\* blob the row names: the row keeps its picture path and url and the old
\* blob is still there.
C12_FailedWriteKeepsOldPicture ==
    [][\A p \in Procs :
        Answers(p, "replace", "write")
            => /\ resp'.status = "InternalError"
               /\ UNCHANGED users
               /\ HasPicture(req[p].userId)
                    => \/ users[req[p].userId].profile_picture_path \notin DOMAIN blobs
                       \/ users[req[p].userId].profile_picture_path \in DOMAIN blobs']_vars

\* C12 witness: an upload for a user with a picture has just been answered
\* with an error, its new blob was never written, and the row still names
\* the old blob, which exists.
C12_Witness ==
    /\ resp.op = "replace" /\ resp.status = "InternalError" /\ resp.fault
    /\ ProfilePath(resp.userId, resp.fileId) \notin DOMAIN blobs
    /\ HasPicture(resp.userId)
    /\ users[resp.userId].profile_picture_url # NullPath
    /\ users[resp.userId].profile_picture_path \in DOMAIN blobs

----------------------------------------------------------------------------
(* Downloads and the download counter (SpecCounter, SpecDownload).         *)

DownloadCount(fileId) == shared_files[fileId].download_count

\* C13: download_count of a row never decreases; it goes up, by one, only in
\* the increment step of a download that had read the row and seen its blob;
\* a download whose lookup finds no row, and a download that finds the blob of
\* its row missing, is answered NotFound and changes no row.
C13_CountOnlyGrowsInDownloads ==
    [][/\ \A f \in DOMAIN shared_files \cap DOMAIN shared_files' :
            /\ shared_files'[f].download_count >= DownloadCount(f)
            /\ shared_files'[f].download_count # DownloadCount(f)
                => /\ shared_files'[f].download_count = DownloadCount(f) + 1
                   /\ \E p \in Procs : /\ Running(p, "download", "increment")
                                        /\ req[p].fileId = f
                                        /\ req[p].row # NullRow
                                        /\ req'[p].pc = "send"
       /\ \A p \in Procs :
            Admitted(p, "download")
                => /\ RowExists(req'[p].fileId)
                   /\ req'[p].row = shared_files[req'[p].fileId]
       /\ (AnsweredAtOnce("download") /\ ~RowExists(resp'.fileId))
            => (resp'.status = "NotFound" /\ UNCHANGED shared_files)
       /\ \A p \in Procs :
            (Running(p, "download", "exists") /\ req'[p] # req[p])
                => IF PathExists(req[p].row.file_path)
                   THEN req'[p].pc = "increment" /\ UNCHANGED shared_files
                   ELSE /\ req'[p] = Idle
                        /\ resp'.status = "NotFound"
                        /\ UNCHANGED shared_files]_vars

\* C13 witness: a download of a row that has been downloaded before has just
\* been answered NotFound because the blob of the row is missing, and the
\* counter is what the earlier download left.
C13_Witness ==
    /\ resp.op = "download" /\ resp.status = "NotFound" /\ ~resp.fault
    /\ RowExists(resp.fileId) /\ ~BlobExists(resp.fileId)
    /\ DownloadCount(resp.fileId) = 1
    /\ Called(resp.fileId) = 1

\* C14: every row's download_count is the number of incrementDownloadCount
\* calls made on it, whatever the order of calls, creates and deletes; a call
\* on an existing row adds exactly one, sets last_accessed to the clock and
\* reports 1 row, a call on a missing id changes nothing and reports 0; and
\* last_accessed of a row never moves backwards.
C14_IncrementIsAtomicAndMonotonic ==
    /\ [](\A f \in DOMAIN shared_files : DownloadCount(f) = Called(f))
    /\ [][/\ \A f \in DOMAIN shared_files \cap DOMAIN shared_files' :
                shared_files'[f].last_accessed >= shared_files[f].last_accessed
          /\ (/\ resp'.op = "increment" /\ ~resp'.fault
              /\ <<resp, shared_files, calls>>' # <<resp, shared_files, calls>>)
                => IF RowExists(resp'.fileId)
                   THEN /\ resp'.changes = 1
                        /\ shared_files' =
                              [shared_files EXCEPT
                                 ![resp'.fileId].download_count = @ + 1,
                                 ![resp'.fileId].last_accessed = now]
                   ELSE /\ resp'.changes = 0
                        /\ UNCHANGED shared_files]_vars

\* C14 witness: the second call on a row has just reported one row, after the
\* clock moved on; the count is two.
C14_Witness ==
    /\ resp.op = "increment" /\ resp.changes = 1
    /\ RowExists(resp.fileId)
    /\ DownloadCount(resp.fileId) = 2
    /\ shared_files[resp.fileId].last_accessed >= 1

\* C15: a download that answers success hands back exactly the payload the
\* upload of that file stored, and file_size of every uploaded row is the
\* length of its payload, whatever other uploads happened meanwhile.
C15_DownloadReturnsUpload ==
    /\ \A f \in DOMAIN stored \cap DOMAIN shared_files :
            shared_files[f].file_size = Len(stored[f])
    /\ (resp.op = "download" /\ resp.status = "OK")
            => /\ resp.fileId \in DOMAIN stored
               /\ resp.body = stored[resp.fileId]

\* C15 witness: the file downloaded last was uploaded before another file of
\* different content and length, and its own payload came back.
C15_Witness ==
    /\ resp.op = "download" /\ resp.status = "OK"
    /\ resp.body = stored[resp.fileId]
    /\ shared_files[resp.fileId].file_size = Len(resp.body)
    /\ \E g \in DOMAIN stored :
            g > resp.fileId /\ Len(stored[g]) # Len(resp.body)

----------------------------------------------------------------------------
(* Identifier collisions (SpecCollide).                                    *)

\* C16: an upload whose identifier is that of an existing row is answered
\* Conflict by its create step, and the existing row and the content of its
\* blob are as the first upload left them, so file_size is the blob's length.
C16_CollisionIsConflict ==
    [][\A p \in Procs :
        (Answers(p, "upload", "create") /\ RowExists(req[p].fileId))
            => /\ resp'.status = "Conflict"
               /\ UNCHANGED shared_files
               /\ blobs'[shared_files[req[p].fileId].file_path] = stored[req[p].fileId]
               /\ shared_files[req[p].fileId].file_size
                    = Len(blobs'[shared_files[req[p].fileId].file_path])]_vars

----------------------------------------------------------------------------
(* Storage errors of the repository.                                       *)

\* C17: a request in which a repository call met a storage error is answered
\* with that error (InternalError), never with NotFound or with success.
C17_StorageErrorSurfaces ==
    resp.fault => resp.status = "InternalError"

----------------------------------------------------------------------------
(* Paths (SpecPaths).                                                      *)

\* C18: every path a handler writes, reads or removes lies inside the blob
\* root and inside the bucket of its operation, profiles/ for pictures and
\* shared/ for shared files.
C18_PathsStayInBucket ==
    /\ touched.op \in {"replace", "picture"}
        => Inside(touched.path, BlobRoot) /\ Inside(touched.path, ProfilesBucket)
    /\ touched.op \in {"upload", "shared"}
        => Inside(touched.path, BlobRoot) /\ Inside(touched.path, SharedBucket)

----------------------------------------------------------------------------
(* The users row.                                                          *)

\* C19: in every reachable state each users row has profile_picture_path
\* empty if and only if profile_picture_url is empty.
C19_PathAndUrlTogether ==
    \A u \in DOMAIN users :
        (users[u].profile_picture_path = NullPath)
            <=> (users[u].profile_picture_url = NullPath)

\* C19 witness: a sync has just written the row of a user with a picture, and
\* the row has both fields; it is not the first picture of the user.
C19_Witness ==
    /\ resp.op = "sync" /\ resp.status = "OK"
    /\ HasPicture(resp.userId)
    /\ users[resp.userId].profile_picture_url # NullPath
    /\ PictureQuiet(resp.userId)
    /\ \E i \in uploaded :
            users[resp.userId].profile_picture_path # ProfilePath(resp.userId, i)

\* C20: a users row that exists exists after every step; the write of a
\* picture delete leaves the row with both picture fields empty and with the
\* username and email it had before that write.
C20_UserRowIsKept ==
    [][/\ \A u \in DOMAIN users : u \in DOMAIN users'
       /\ \A p \in Procs :
            (Answers(p, "deletepic", "upsert") /\ resp'.status = "OK")
                => /\ req[p].userId \in DOMAIN users'
                   /\ users'[req[p].userId] =
                        [users[req[p].userId] EXCEPT
                            !.profile_picture_path = NullPath,
                            !.profile_picture_url = NullPath]]_vars

-----------------------------------------------------------------------------
(* C21 *)

\* The columns of a shared_files row that no statement after the INSERT names.
CreatedFields(row) ==
    <<row.file_id, row.user_id, row.original_name, row.file_name,
      row.file_path, row.file_url, row.file_size, row.mime_type,
      row.category, row.description>>

\* C21: a row that is there before and after a step keeps its file id, owner,
\* original name, stored name, stored path, url, size, MIME type, category and
\* description; it differs at all only when the step is an increment of the
\* download count that names this very row; and it is gone after the step only
\* when the step is a delete that names the row and its owner.
C21_RowsChangeOnlyByDownloadOrOwnerDelete ==
    [][\A f \in DOMAIN shared_files :
          /\ f \in DOMAIN shared_files' =>
                /\ CreatedFields(shared_files'[f]) = CreatedFields(shared_files[f])
                /\ shared_files'[f] # shared_files[f] =>
                      resp'.op = "increment" /\ resp'.fileId = f
          /\ f \notin DOMAIN shared_files' =>
                /\ resp'.op = "delete" /\ resp'.fileId = f
                /\ resp'.userId = shared_files[f].user_id]_vars

\* Two rows, one of them downloaded and the other not.
C21_Witness ==
    /\ resp.op = "increment" /\ resp.changes = 1
    /\ resp.fileId \in DOMAIN shared_files
    /\ shared_files[resp.fileId].download_count = 1
    /\ \E g \in DOMAIN shared_files :
          g # resp.fileId /\ shared_files[g].download_count = 0

-----------------------------------------------------------------------------
(* C22 *)

\* The sum of a column over the rows named, zero over no rows.
RECURSIVE Total(_, _)
Total(ids, column) ==
    IF ids = {} THEN 0
    ELSE LET f == CHOOSE x \in ids : TRUE
         IN  column[f] + Total(ids \ {f}, column)

\* C22: whenever getUserFileStats returns, total_files is the number of rows
\* of the owner asked for, total_size the sum of their file_size and
\* total_downloads the sum of their download_count, each of them an integer
\* (zero, never NULL, for an owner without rows).
C22_StatsCountTheOwnersRows ==
    [][returned' # returned /\ returned'.fn = "getUserFileStats" =>
          LET ids == OwnedBy(returned'.arg[1])
          IN  returned'.value =
                [total_files |-> SqlInt(Cardinality(ids)),
                 total_size |->
                    SqlInt(Total(ids, [f \in DOMAIN shared_files |->
                                          shared_files[f].file_size])),
                 total_downloads |->
                    SqlInt(Total(ids, [f \in DOMAIN shared_files |->
                                          shared_files[f].download_count]))]]_vars

-----------------------------------------------------------------------------
(* C23 *)

\* term occurs in text, letter for letter but for the case of letters.
Contains(text, term) ==
    \E i \in 1..(Len(text) - Len(term) + 1) :
        \A k \in 1..Len(term) : LowerChar(text[i + k - 1]) = LowerChar(term[k])

\* The rows of an owner in which the search term occurs.
Containing(userId, term) ==
    {f \in OwnedBy(userId) :
        \/ Contains(Spelling(shared_files[f].original_name), term)
        \/ Contains(Spelling(shared_files[f].description), term)
        \/ Contains(Spelling(shared_files[f].category), term)}

\* A result holds rows as they are stored, none of them twice, newest first.
NewestFirst(files) ==
    /\ \A i \in DOMAIN files :
          /\ files[i].file_id \in DOMAIN shared_files
          /\ files[i] = shared_files[files[i].file_id]
    /\ \A i, j \in DOMAIN files :
          i < j => /\ files[i].file_id # files[j].file_id
                   /\ files[i].created_at >= files[j].created_at

\* C23: whenever searchFiles returns, the result holds exactly the rows of the
\* owner asked for whose original name, description or category contains the
\* term as typed (no character of it standing for anything but itself, the
\* case of letters aside), newest first, cut after 20 rows.
C23_SearchFindsTheLiteralTerm ==
    [][returned' # returned /\ returned'.fn = "searchFiles" =>
          LET files == returned'.value
              hits == Containing(returned'.arg[1], returned'.arg[2])
          IN  /\ NewestFirst(files)
              /\ {files[i].file_id : i \in DOMAIN files} \subseteq hits
              /\ Len(files) = IF Cardinality(hits) < SearchLimit
                               THEN Cardinality(hits) ELSE SearchLimit]_vars

-----------------------------------------------------------------------------
(* C24 *)

\* id INTEGER PRIMARY KEY AUTOINCREMENT: where rows are only inserted, as by
\* RepoCreateOf, the n-th row inserted has file id n and row id n.
RowId(row) == row.file_id

\* ORDER BY created_at DESC, id ASC
SortsBefore(a, b) ==
    \/ a.created_at > b.created_at
    \/ a.created_at = b.created_at /\ RowId(a) < RowId(b)

\* C24: whenever getUserSharedFiles returns, every row of the result is a
\* stored row of the owner asked for, each row comes before the next by newer
\* created_at or, at equal created_at, by smaller row id (insertion order),
\* there are at most limit rows, and exactly offset rows of the owner sort
\* before the first one returned.
C24_ListIsOrderedWithTiesByRowId ==
    [][returned' # returned /\ returned'.fn = "getUserSharedFiles" =>
          LET files == returned'.value
              userId == returned'.arg[1]
              limit == returned'.arg[2]
              offset == returned'.arg[3]
          IN  /\ \A i \in DOMAIN files :
                    /\ files[i].file_id \in OwnedBy(userId)
                    /\ files[i] = shared_files[files[i].file_id]
              /\ \A i, j \in DOMAIN files :
                    i < j => SortsBefore(files[i], files[j])
              /\ Len(files) <= limit
              /\ files # <<>> =>
                    Cardinality({f \in OwnedBy(userId) :
                        SortsBefore(shared_files[f], files[1])}) = offset]_vars

-----------------------------------------------------------------------------
(* C25 *)

\* The decision table: each line applies when no line above it does.
TableSays(mimeType, category) ==
    LET image == StartsWith(mimeType, "image/")
        video == StartsWith(mimeType, "video/")
        audio == StartsWith(mimeType, "audio/")
        pdf == mimeType = <<"application/", "pdf">>
        text == StartsWith(mimeType, "text/")
        document == Includes(mimeType, "word") \/ Includes(mimeType, "document")
        archive == Includes(mimeType, "zip")
    IN  /\ image => category = "image"
        /\ ~image /\ video => category = "video"
        /\ ~image /\ ~video /\ audio => category = "audio"
        /\ ~image /\ ~video /\ ~audio /\ pdf => category = "pdf"
        /\ ~image /\ ~video /\ ~audio /\ ~pdf /\ text => category = "text"
        /\ ~image /\ ~video /\ ~audio /\ ~pdf /\ ~text /\ document
              => category = "document"
        /\ ~image /\ ~video /\ ~audio /\ ~pdf /\ ~text /\ ~document /\ archive
              => category = "archive"
        /\ ~image /\ ~video /\ ~audio /\ ~pdf /\ ~text /\ ~document /\ ~archive
              => category = "other"

\* C25: the category getFileCategory returns for a MIME type is the one the
\* decision table gives (image/, video/, audio/ as prefix, application/pdf
\* exactly, text/ as prefix, word or document contained, zip contained,
\* otherwise other; the first line that applies wins, letters compared as
\* they are), and every stored row holds the category of its own MIME type.
C25_CategoryFollowsTheTable ==
    /\ returned.fn = "getFileCategory"
          => TableSays(returned.arg[1], returned.value)
    /\ \A f \in DOMAIN shared_files :
          /\ shared_files[f].category = GetFileCategory(shared_files[f].mime_type)
          /\ TableSays(shared_files[f].mime_type, shared_files[f].category)
    /\ GetFileCategory(<<"image/", "png">>) = "image"
    /\ GetFileCategory(<<"application/", "pdf">>) = "pdf"
    /\ GetFileCategory(<<"application/", "zip">>) = "archive"
    /\ GetFileCategory(<<"application/", "unknown">>) = "other"

\* A zip archive is stored as an archive, and a text type that contains "zip"
\* has been classified as text.
C25_Witness ==
    /\ \E f \in DOMAIN shared_files :
          /\ shared_files[f].mime_type = <<"application/", "x-", "zip", "-compressed">>
          /\ shared_files[f].category = "archive"
    /\ returned = Returned("getFileCategory", <<<<"text/", "zip">>>>, "text")

-----------------------------------------------------------------------------
(* C26 *)

\* C26: for a size of one byte or more the unit formatFileSize writes is one
\* of Bytes, KB, MB and GB, and it is GB for a size of 1024^4 bytes or more.
C26_UnitIsClampedToTheTable ==
    returned.fn = "formatFileSize" /\ returned.arg[1] >= 1 =>
        /\ returned.value.unit \in {"Bytes", "KB", "MB", "GB"}
        /\ Log2Floor(returned.arg[1]) + returned.arg[2] >= 40
              => returned.value.unit = "GB"

-----------------------------------------------------------------------------
(* C27 *)

\* C27 as stated: every size but 0 is written with exactly two decimals; 0 is
\* "0 Bytes", 1536 is "1.50 KB" and 1073741824 is "1.00 GB".
C27_AlwaysTwoDecimals ==
    /\ returned.fn = "formatFileSize" /\ returned.arg[1] >= 1 =>
          Len(returned.value.number) = 3
    /\ returned.fn = "formatFileSize" /\ returned.arg[1] = 0 =>
          returned.value = [number |-> <<0>>, unit |-> "Bytes"]
    /\ returned.fn = "formatFileSize" /\ returned.arg = <<3, 9>> =>
          returned.value = [number |-> <<1, 5, 0>>, unit |-> "KB"]
    /\ returned.fn = "formatFileSize" /\ returned.arg = <<1, 30>> =>
          returned.value = [number |-> <<1, 0, 0>>, unit |-> "GB"]

\* The hundredths a written number stands for.
Hundredths(number) ==
    100 * number[1] + (IF Len(number) >= 2 THEN 10 * number[2] ELSE 0)
                    + (IF Len(number) >= 3 THEN number[3] ELSE 0)

\* C27, amended: every size but 0 is written as the scaled value rounded to
\* the nearest hundredth, with at most two decimals and no zero as the last
\* decimal; 0 is "0 Bytes", 1536 is "1.5 KB" and 1073741824 is "1 GB".
C27_TwoDecimalsWithoutTrailingZeros ==
    /\ returned.fn = "formatFileSize" /\ returned.arg[1] >= 1 =>
          LET number == returned.value.number
              x == Scaled(returned.arg)
              off == Hundredths(number) * x[2] - 100 * x[1]
          IN  /\ Len(number) \in 1..3
              /\ Len(number) > 1 => number[Len(number)] # 0
              /\ \A k \in 2..Len(number) : number[k] \in 0..9
              /\ 2 * off <= x[2] /\ 2 * off > 0 - x[2]
    /\ returned.fn = "formatFileSize" /\ returned.arg[1] = 0 =>
          returned.value = [number |-> <<0>>, unit |-> "Bytes"]
    /\ returned.fn = "formatFileSize" /\ returned.arg = <<3, 9>> =>
          returned.value = [number |-> <<1, 5>>, unit |-> "KB"]
    /\ returned.fn = "formatFileSize" /\ returned.arg = <<1, 30>> =>
          returned.value = [number |-> <<1>>, unit |-> "GB"]

\* 1536 bytes have been formatted.
C27_Witness ==
    returned = Returned("formatFileSize", <<3, 9>>,
                        [number |-> <<1, 5>>, unit |-> "KB"])

-----------------------------------------------------------------------------
(* C28 *)

\* C28: a picture upload whose removal of the previous blob fails warns and
\* goes on to its upsert without answering; when that upsert meets no error
\* of its own the upload is answered with success, the users row holds the
\* new path and url, and the new blob exists.
C28_FailedCleanupStillCommits ==
    [][\A p \in Procs :
        /\ (/\ Running(p, "replace", "oldremove")
            /\ req'[p] # req[p]
            /\ req[p].row.profile_picture_path \in DOMAIN blobs')
                => req'[p] = [req[p] EXCEPT !.pc = "upsert", !.warned = TRUE]
        /\ (Answers(p, "replace", "upsert") /\ req[p].warned /\ ~resp'.fault)
                => /\ resp'.status = "OK"
                   /\ req[p].userId \in DOMAIN users'
                   /\ users'[req[p].userId].profile_picture_path = NewPath(p)
                   /\ users'[req[p].userId].profile_picture_url = NewUrl(p)
                   /\ NewPath(p) \in DOMAIN blobs']_vars

\* C28 witness: an upload that warned has just been answered with success;
\* the row names its new blob, which exists, and the blob it failed to remove
\* is still there.
C28_Witness ==
    /\ resp.op = "replace" /\ resp.status = "OK" /\ resp.warned
    /\ HasPicture(resp.userId)
    /\ users[resp.userId].profile_picture_path
            = ProfilePath(resp.userId, resp.fileId)
    /\ ProfilePath(resp.userId, resp.fileId) \in DOMAIN blobs
    /\ \E i \in uploaded :
          /\ i # resp.fileId
          /\ ProfilePath(resp.userId, i) \in DOMAIN blobs

-----------------------------------------------------------------------------
(* C29 *)

\* C29: a users row that is there before and after a step has the created_at
\* it had, and when the step writes the row its updated_at is the time of the
\* write.
C29_CreatedAtIsKept ==
    [][\A u \in DOMAIN users :
          u \in DOMAIN users' =>
              /\ users'[u].created_at = users[u].created_at
              /\ users'[u] # users[u] => users'[u].updated_at = now]_vars

====
